---- MODULE Spec2Model ----
(***************************************************************************)
(* Model of the RFFL median scoring engine: ScoringAgent (the engine, its  *)
(* three strategies, its validators, its history) and MedianCalculator.    *)
(*                                                                         *)
(* Numbers.  Scores carry two decimals, so every quantity is an integer    *)
(* number of half-cents (1 point = 200 units): the unrounded median of two *)
(* two-decimal scores is then an integer too, and rounding to two decimals *)
(* is rounding to the nearest even unit.  A JavaScript number is the       *)
(* record [nan, v]; NaN is [nan |-> TRUE, v |-> 0].  Rates between 0 and 1 *)
(* (quality, accuracy, priority, sensitivity) are integer percents.        *)
(*                                                                         *)
(* Specifications.  Spec is the agent as it runs: calculate with its       *)
(* fallback, executeRecalculation, runAnomalyCheck and MedianCalculator.    *)
(* FairSpec adds that an awaited promise settles.  TunedSpec adds          *)
(* incorporateLearning.  HistorySpec, AggregatorSpec, StrategySpec,        *)
(* DetectionSpec, ProjectionSpec, WeightedSpec and TuningSpec call one     *)
(* method of the agent directly, from the state the constructor leaves.    *)
(***************************************************************************)
EXTENDS Integers, Sequences, FiniteSets, TLC

VARIABLES
    teamData,       \* the data the caller or the cache supplies
    op,             \* the operation in progress or last finished
    pc,             \* where that operation stands
    attempts,       \* the strategies it has invoked, in order
    verdicts,       \* validateResult's verdict on each attempt it judged
    validated,      \* whether preValidateData ran and passed in it
    primaryResult,  \* calculate: the result of the primary algorithm
    result,         \* calculateWithFallback: the result of the last algorithm
    fbIndex,        \* calculateWithFallback: the place in its list
    anomalyCheck,   \* calculate: what performAnomalyDetection returned
    flagged,        \* whether flagForReview was called
    stored,         \* whether storeCalculationHistory was called
    outcome,        \* how the operation ended
    returned,       \* the result it returned (Thrown when none)
    medianHistory,  \* this.medianHistory
    recorded,       \* every record handed to the history, oldest first
    reports,        \* the detector reports handed to the aggregator
    supplied,       \* the data as it was handed to a strategy called directly
    earlier,        \* per strategy: its direct calls so far, the first result
    suppliedWeights, \* the weights handed to the weighted strategy called directly
    priority,       \* algorithm.priority of each scoring algorithm, in percent
    sensitivity     \* detector.sensitivity of each detector, in percent

\* what only the direct calls of the agent's methods use
directVars == <<recorded, reports, supplied, earlier, suppliedWeights>>

\* the parameters the optimizer tunes
tuning == <<priority, sensitivity>>

vars == <<teamData, op, pc, attempts, verdicts, validated, primaryResult,
          result, fbIndex, anomalyCheck, flagged, stored, outcome, returned,
          medianHistory, recorded, reports, supplied, earlier,
          suppliedWeights, priority, sensitivity>>

(***************************************************************************)
(* Units and program constants                                             *)
(***************************************************************************)
\* a score given in cents, and one given in whole points, in half-cents
Cents(c) == 2 * c

Points(p) == 200 * p

teamCount == 12

MaxScore == 300

historyCapacity == 100

(***************************************************************************)
(* JavaScript numbers                                                      *)
(***************************************************************************)
Num(v) == [nan |-> FALSE, v |-> v]

NaN == [nan |-> TRUE, v |-> 0]

JsSub(a, b) == IF a.nan \/ b.nan THEN NaN ELSE Num(a.v - b.v)

\* (a + b) / 2 of two two-decimal scores: a.v + b.v is a multiple of 2 units
JsAvg2(a, b) == IF a.nan \/ b.nan THEN NaN ELSE Num((a.v + b.v) \div 2)

JsGt(a, b) == ~a.nan /\ ~b.nan /\ a.v > b.v

JsLt(a, b) == ~a.nan /\ ~b.nan /\ a.v < b.v

JsGe(a, b) == ~a.nan /\ ~b.nan /\ a.v >= b.v

JsLe(a, b) == ~a.nan /\ ~b.nan /\ a.v <= b.v

\* Math.round(x * 100) / 100: to the nearest cent, a half cent rounds up
Round2(a) == IF a.nan THEN NaN ELSE Num(2 * ((a.v + 1) \div 2))

\* the number a team's score field stands for in arithmetic: a text that is
\* no numeral converts to NaN, and so does every sum or difference with it
ScoreOf(team) == IF team.kind = "number" THEN Num(team.score) ELSE NaN

\* typeof team.score === 'number' (NaN is of type number)
TypeofNumber(team) == team.kind \in {"number", "NaN"}

(***************************************************************************)
(* Array.prototype.sort: stable; a comparator result of NaN counts as 0    *)
(***************************************************************************)
\* (a, b) => b - a  is positive: b goes before a
DescAfter(a, b) == JsGt(b, a)

\* (a, b) => a - b  is positive: b goes before a
AscAfter(a, b) == JsLt(b, a)

RECURSIVE InsertDesc(_, _)
InsertDesc(sorted, x) ==
    IF sorted = <<>> THEN <<x>>
    ELSE IF DescAfter(ScoreOf(sorted[Len(sorted)]), ScoreOf(x))
         THEN Append(InsertDesc(SubSeq(sorted, 1, Len(sorted) - 1), x),
                     sorted[Len(sorted)])
         ELSE Append(sorted, x)

RECURSIVE SortDesc(_)
SortDesc(s) ==
    IF s = <<>> THEN <<>>
    ELSE InsertDesc(SortDesc(SubSeq(s, 1, Len(s) - 1)), s[Len(s)])

RECURSIVE InsertAsc(_, _)
InsertAsc(sorted, x) ==
    IF sorted = <<>> THEN <<x>>
    ELSE IF AscAfter(ScoreOf(sorted[Len(sorted)]), ScoreOf(x))
         THEN Append(InsertAsc(SubSeq(sorted, 1, Len(sorted) - 1), x),
                     sorted[Len(sorted)])
         ELSE Append(sorted, x)

RECURSIVE SortAsc(_)
SortAsc(s) ==
    IF s = <<>> THEN <<>>
    ELSE InsertAsc(SortAsc(SubSeq(s, 1, Len(s) - 1)), s[Len(s)])

(***************************************************************************)
(* Sums, extremes and the standard deviation                               *)
(***************************************************************************)
RECURSIVE SumInts(_)
SumInts(s) == IF s = <<>> THEN 0 ELSE s[1] + SumInts(Tail(s))

Scores(teams) == [i \in 1..Len(teams) |-> ScoreOf(teams[i])]

AnyNaN(nums) == \E i \in 1..Len(nums) : nums[i].nan

Values(nums) == [i \in 1..Len(nums) |-> nums[i].v]

\* scores.reduce((sum, score) => sum + score, 0)
JsSum(nums) == IF AnyNaN(nums) THEN NaN ELSE Num(SumInts(Values(nums)))

\* Math.max(...scores) and Math.min(...scores) of a non-empty list
JsMax(nums) ==
    IF AnyNaN(nums) THEN NaN
    ELSE Num(CHOOSE m \in {nums[i].v : i \in 1..Len(nums)} :
                 \A j \in 1..Len(nums) : nums[j].v <= m)

JsMin(nums) ==
    IF AnyNaN(nums) THEN NaN
    ELSE Num(CHOOSE m \in {nums[i].v : i \in 1..Len(nums)} :
                 \A j \in 1..Len(nums) : nums[j].v >= m)

\* Wide integers: <<c2, c1, c0>> stands for c2 * Base^2 + c1 * Base + c0
Base == 10000

Abs(x) == IF x < 0 THEN -x ELSE x

Normal(w) ==
    LET c1 == w[2] + (w[3] \div Base)
    IN  <<w[1] + (c1 \div Base), c1 % Base, w[3] % Base>>

WideSquare(x) ==
    LET hi == Abs(x) \div Base
        lo == Abs(x) % Base
    IN  <<hi * hi, 2 * hi * lo, lo * lo>>

RECURSIVE WideSum(_)
WideSum(ws) ==
    IF ws = <<>> THEN <<0, 0, 0>>
    ELSE LET r == WideSum(Tail(ws))
         IN  <<ws[1][1] + r[1], ws[1][2] + r[2], ws[1][3] + r[3]>>

WideLess(a, b) ==
    \/ a[1] < b[1]
    \/ a[1] = b[1] /\ a[2] < b[2]
    \/ a[1] = b[1] /\ a[2] = b[2] /\ a[3] < b[3]

WideScale(w, c) == Normal(<<w[1] * c, w[2] * c, w[3] * c>>)

\* calculateStandardDeviation, exactly: with n scores of sum S the variance is
\* Sum (n * s - S)^2 / n^3, so the deviation is carried as that numerator
\* (SquaredDeviations) and compared with a bound t through n^3 * t^2.
SquaredDeviations(nums) ==
    LET n == Len(nums)
        S == SumInts(Values(nums))
    IN  Normal(WideSum([i \in 1..n |-> WideSquare(n * nums[i].v - S)]))

calculateStandardDeviation(nums) ==
    IF AnyNaN(nums) THEN [nan |-> TRUE, n |-> Len(nums), sq |-> <<0, 0, 0>>]
    ELSE [nan |-> FALSE, n |-> Len(nums), sq |-> SquaredDeviations(nums)]

\* n^3 * (200 * points)^2 = n^3 * points^2 * 4 * Base
WideBound(n, points) == Normal(<<0, n * n * n * points * points * 4, 0>>)

\* stdDev > points  and  stdDev < points
StdDevAbove(sd, points) == ~sd.nan /\ WideLess(WideBound(sd.n, points), sd.sq)

StdDevBelow(sd, points) == ~sd.nan /\ WideLess(sd.sq, WideBound(sd.n, points))

(***************************************************************************)
(* ScoringAgent: the three strategies                                      *)
(***************************************************************************)
\* what a strategy call that threw leaves behind
Thrown ==
    [threw |-> TRUE, median |-> NaN, teams |-> <<>>, stats |-> <<>>,
     quality |-> 0, algorithm |-> "none", confidence |-> 0]

\* a variant that compares the score with the median as reported (rounded)
ResultVsRoundedMedian(team, median) ==
    IF JsGt(ScoreOf(team), Round2(median)) THEN "WIN"
    ELSE IF JsLt(ScoreOf(team), Round2(median)) THEN "LOSS"
    ELSE "TIE"

\* team.score > median ? 'WIN' : team.score < median ? 'LOSS' : 'TIE'
ResultVsMedian(team, median) ==
    IF JsGt(ScoreOf(team), median) THEN "WIN"
    ELSE IF JsLt(ScoreOf(team), median) THEN "LOSS"
    ELSE "TIE"

\* teamData.map(team => ({...team, result, marginVsMedian})).sort(b.score - a.score)
TeamsVsMedian(data, median) ==
    SortDesc([i \in 1..Len(data) |->
        [team |-> data[i].team, kind |-> data[i].kind, score |-> data[i].score,
         proj |-> data[i].proj,
         result |-> ResultVsMedian(data[i], median),
         marginVsMedian |-> JsSub(ScoreOf(data[i]), median)]])

CountResult(teams, r) == Cardinality({i \in 1..Len(teams) : teams[i].result = r})

calculateStats(teams, median) ==
    LET scores == Scores(teams)
    IN  [median |-> median,
         highScore |-> JsMax(scores),
         lowScore |-> JsMin(scores),
         range |-> JsSub(JsMax(scores), JsMin(scores)),
         winners |-> CountResult(teams, "WIN"),
         losers |-> CountResult(teams, "LOSS"),
         ties |-> CountResult(teams, "TIE"),
         scoreSum |-> JsSum(scores),
         scoreCount |-> Len(scores),
         standardDeviation |-> calculateStandardDeviation(scores)]

StrategyResult(data, median, quality) ==
    LET teams == TeamsVsMedian(data, median)
    IN  [threw |-> FALSE, median |-> Round2(median), teams |-> teams,
         stats |-> calculateStats(teams, median), quality |-> quality,
         algorithm |-> "none", confidence |-> 0]

\* the two places of the sorted scores whose average is the median:
\* scores[5] and scores[6], counted from 0
lowerMid == 5

upperMid == 6

\* a variant that averages the 7th and 8th scores
calculateRFFLMedianOffByOne(data) ==
    LET scores == Scores(SortDesc(data))
    IN  IF Len(scores) # teamCount THEN Thrown
        ELSE StrategyResult(data,
                 JsAvg2(scores[lowerMid + 2], scores[upperMid + 2]), 100)

calculateRFFLMedian(data) ==
    LET scores == Scores(SortDesc(data))
    IN  IF Len(scores) # teamCount THEN Thrown
        ELSE StrategyResult(data,
                 JsAvg2(scores[lowerMid + 1], scores[upperMid + 1]), 100)

\* a variant that takes the upper of the two middle scores for the median
calculateStatisticalMedianUpper(data) ==
    LET scores == Scores(SortAsc(data))
        n == Len(scores)
    IN  StrategyResult(data, scores[(n \div 2) + 1], 95)

calculateStatisticalMedian(data) ==
    LET scores == Scores(SortAsc(data))
        n == Len(scores)
        median == IF n % 2 = 0 THEN JsAvg2(scores[n \div 2], scores[(n \div 2) + 1])
                  ELSE scores[(n \div 2) + 1]
    IN  StrategyResult(data, median, 95)

\* no value: null or undefined
None == [isArray |-> FALSE, items |-> <<>>]

\* weights = teamData.map(() => 1)
EqualWeights(data) == [i \in 1..Len(data) |-> 1]

\* teamData.map((team, index) => ({score, weight: weights[index], team}))
\*     .sort((a, b) => a.score - b.score)
WeightedData(data, weights) ==
    SortAsc([i \in 1..Len(data) |->
        [team |-> data[i].team, kind |-> data[i].kind, score |-> data[i].score,
         weight |-> weights[i]]])

\* cumulativeWeight after the entry at place i (from 1)
RECURSIVE CumulativeWeight(_, _)
CumulativeWeight(weightedData, i) ==
    IF i = 0 THEN 0
    ELSE CumulativeWeight(weightedData, i - 1) + weightedData[i].weight

\* a variant that never averages: the score of the entry at which the
\* cumulative weight reaches half of the total
WeightedMedianNoAverage(data, weights) ==
    LET weightedData == WeightedData(data, weights)
        n == Len(weightedData)
        totalWeight == SumInts(weights)
        reached == {k \in 1..n :
                       2 * CumulativeWeight(weightedData, k) >= totalWeight}
    IN  IF reached = {} THEN Num(0)
        ELSE ScoreOf(weightedData[CHOOSE k \in reached :
                                      \A j \in reached : k <= j])

\* the loop: the first place at which cumulativeWeight >= totalWeight / 2;
\* the average with the next entry when it is equal and a next entry
\* exists, else the entry's own score; 0 when no place reaches it
WeightedMedian(data, weights) ==
    LET weightedData == WeightedData(data, weights)
        n == Len(weightedData)
        totalWeight == SumInts(weights)
        reached == {k \in 1..n :
                       2 * CumulativeWeight(weightedData, k) >= totalWeight}
    IN  IF reached = {} THEN Num(0)
        ELSE LET i == CHOOSE k \in reached : \A j \in reached : k <= j
             IN  IF 2 * CumulativeWeight(weightedData, i) = totalWeight /\ i < n
                 THEN JsAvg2(ScoreOf(weightedData[i]), ScoreOf(weightedData[i + 1]))
                 ELSE ScoreOf(weightedData[i])

\* weights is None or a list of as many weights as there are teams
calculateWeightedMedian(data, weights) ==
    LET given == IF weights.isArray THEN weights.items ELSE EqualWeights(data)
    IN  StrategyResult(data, WeightedMedian(data, given), 90)

(***************************************************************************)
(* MedianCalculator                                                        *)
(***************************************************************************)
\* roundScore: Math.round(score * 10^precision) / 10^precision, precision 2
roundScore(a) == Round2(a)

\* this.medianPositions = [5, 6], counted from 0
medianPositions == <<5, 6>>

MarginResult(margin) ==
    IF JsGt(margin, Num(0)) THEN "WIN"
    ELSE IF JsLt(margin, Num(0)) THEN "LOSS"
    ELSE "TIE"

\* the statistics the display shows as ratios (avgMarginVsMedian,
\* medianAsPercentOfAverage, averageScore) are not carried
calculateMedianStats(results, median) ==
    LET scores == Scores(results)
    IN  [wins |-> CountResult(results, "WIN"),
         losses |-> CountResult(results, "LOSS"),
         ties |-> CountResult(results, "TIE"),
         highScore |-> JsMax(scores),
         lowScore |-> JsMin(scores),
         scoreRange |-> roundScore(JsSub(JsMax(scores), JsMin(scores)))]

calculateMedian(data) ==
    IF ~data.isArray \/ Len(data.items) # teamCount THEN Thrown
    ELSE LET sortedTeams == SortDesc(data.items)
             sixthPlace == sortedTeams[medianPositions[1] + 1]
             seventhPlace == sortedTeams[medianPositions[2] + 1]
             median == roundScore(JsAvg2(ScoreOf(sixthPlace), ScoreOf(seventhPlace)))
             results == [i \in 1..Len(sortedTeams) |->
                 LET team == sortedTeams[i]
                     margin == roundScore(JsSub(ScoreOf(team), median))
                 IN  [team |-> team.team, kind |-> team.kind,
                      score |-> team.score, proj |-> team.proj,
                      rank |-> i,
                      marginVsMedian |-> margin,
                      result |-> MarginResult(margin),
                      isAboveMedian |-> JsGt(margin, Num(0)),
                      isBelowMedian |-> JsLt(margin, Num(0)),
                      isAtMedian |-> ~margin.nan /\ margin.v = 0]]
         IN  [threw |-> FALSE, median |-> median,
              sixthPlaceScore |-> ScoreOf(sixthPlace),
              seventhPlaceScore |-> ScoreOf(seventhPlace),
              teams |-> results,
              stats |-> calculateMedianStats(results, median),
              quality |-> 0, algorithm |-> "none", confidence |-> 0]

\* What validateTeamData(teamData) throws on one team, if anything: a score
\* that is no number or is NaN, then a team with neither team nor
\* canonicalCode (identifier 0 stands for none).
TeamFault(team) ==
    IF ~TypeofNumber(team) \/ team.kind = "NaN" THEN "Invalid score"
    ELSE IF team.team = 0 THEN "Missing team identifier"
    ELSE "none"

\* validateTeamData(teamData): true, or the error of the first check that
\* fails (it throws there and checks no further)
validateTeamData(data) ==
    IF ~data.isArray
    THEN [threw |-> TRUE, error |-> <<"Team data must be an array", 0>>]
    ELSE IF Len(data.items) # teamCount
    THEN [threw |-> TRUE, error |-> <<"Expected 12 teams", 0>>]
    ELSE LET faulty == {i \in 1..Len(data.items) :
                           TeamFault(data.items[i]) # "none"}
         IN  IF faulty = {} THEN [threw |-> FALSE, error |-> <<"none", 0>>]
             ELSE LET first == CHOOSE i \in faulty : \A j \in faulty : i <= j
                  IN  [threw |-> TRUE,
                       error |-> <<TeamFault(data.items[first]), first - 1>>]

(***************************************************************************)
(* ScoringAgent: validation                                                *)
(***************************************************************************)
\* the errors of one team, in the order the code pushes them
TeamErrors(team, index) ==
    (IF ~TypeofNumber(team) THEN <<<<"Invalid score", index>>>> ELSE <<>>)
    \o (IF JsLt(ScoreOf(team), Num(0)) \/ JsGt(ScoreOf(team), Num(Points(MaxScore)))
        THEN <<<<"Score out of range", index>>>> ELSE <<>>)

RECURSIVE AllTeamErrors(_, _)
AllTeamErrors(items, k) ==
    IF k = 0 THEN <<>>
    ELSE AllTeamErrors(items, k - 1) \o TeamErrors(items[k], k - 1)

\* a variant that does not check the number of teams
preValidateDataNoCount(data) ==
    LET errors ==
            IF ~data.isArray THEN <<<<"Team data must be an array", 0>>>>
            ELSE AllTeamErrors(data.items, Len(data.items))
    IN  [isValid |-> errors = <<>>, errors |-> errors]

preValidateData(data) ==
    LET errors ==
            IF ~data.isArray THEN <<<<"Team data must be an array", 0>>>>
            ELSE (IF Len(data.items) # 12
                  THEN <<<<"Must have exactly 12 teams", 0>>>> ELSE <<>>)
                 \o AllTeamErrors(data.items, Len(data.items))
    IN  [isValid |-> errors = <<>>, errors |-> errors]

\* The value a validation rule is called with.  A rule written for a number
\* or for a list may be handed a whole result object: then the object
\* converts to NaN, has no length, and has no map method.
ArgNumber(n) == [type |-> "number", num |-> n, items |-> <<>>, obj |-> Thrown]

ArgArray(a) == [type |-> "array", num |-> NaN, items |-> a, obj |-> Thrown]

ArgObject(o) == [type |-> "object", num |-> NaN, items |-> <<>>, obj |-> o]

\* validate: (median) => median >= 0 && median <= 300
medianRangeRule(arg) ==
    /\ arg.type = "number"
    /\ JsGe(arg.num, Num(0))
    /\ JsLe(arg.num, Num(Points(MaxScore)))

\* validate: (teams) => teams && teams.length === 12
teamCountRule(arg) == arg.type = "array" /\ Len(arg.items) = 12

\* stdDev > 5 && stdDev < 50
validateScoreConsistency(teams) ==
    LET stdDev == calculateStandardDeviation(Scores(teams))
    IN  StdDevAbove(stdDev, 5) /\ StdDevBelow(stdDev, 50)

\* validate: (teams) => this.validateScoreConsistency(teams); teams.map
\* throws on anything but a list, and validateResult counts that as an error
scoreConsistencyRule(arg) ==
    IF arg.type = "array" THEN validateScoreConsistency(arg.items) ELSE FALSE

\* Math.abs(expectedMedian - actualMedian) < 0.01, and 0.01 is 2 units
validateCalculationAccuracy(res) ==
    IF Len(res.teams) # 12 THEN FALSE
    ELSE LET scores == Scores(SortDesc(res.teams))
             expectedMedian == JsAvg2(scores[6], scores[7])
             diff == JsSub(expectedMedian, res.median)
         IN  ~diff.nan /\ Abs(diff.v) < 2

calculationAccuracyRule(arg) ==
    arg.type = "object" /\ validateCalculationAccuracy(arg.obj)

\* validateResult hands every rule the result object itself
RuleArgument(res) == ArgObject(res)

validateResult(res) ==
    LET arg == RuleArgument(res)
        errors ==
            (IF medianRangeRule(arg) THEN <<>> ELSE <<"median_range">>)
            \o (IF teamCountRule(arg) THEN <<>> ELSE <<"team_count">>)
            \o (IF scoreConsistencyRule(arg) THEN <<>> ELSE <<"score_consistency">>)
            \o (IF calculationAccuracyRule(arg) THEN <<>> ELSE <<"calculation_accuracy">>)
    IN  [isValid |-> errors = <<>>, errors |-> errors]

(***************************************************************************)
(* ScoringAgent: anomaly detection as the engine runs it                   *)
(***************************************************************************)
NoAnomalies == [threw |-> FALSE, anomalies |-> <<>>, severityNum |-> 0]

DetectorThrew == [threw |-> TRUE, anomalies |-> <<>>, severityNum |-> 0]

\* the gaps between neighbours of the ascending scores
Gaps(sorted) == [i \in 1..(Len(sorted) - 1) |-> sorted[i + 1].v - sorted[i].v]

\* detectPatternAnomalies(data): a gap is large when gap > averageGap * 3,
\* that is gap * (number of gaps) > 3 * (sum of gaps); the severity is
\* min(largeGaps / 3, 1), carried in thirds (severityNum / 3)
detectPatternAnomalies(data) ==
    LET scores == Scores(SortAsc(data.teams))
        gaps == Gaps(scores)
        large == IF AnyNaN(scores) \/ Len(gaps) = 0 THEN {}
                 ELSE {i \in 1..Len(gaps) :
                          gaps[i] * Len(gaps) > 3 * SumInts(gaps)}
        count == Cardinality(large)
    IN  IF count > 0
        THEN [threw |-> FALSE, anomalies |-> <<"score_clustering">>,
              severityNum |-> IF count < 3 THEN count ELSE 3]
        ELSE NoAnomalies

\* Math.abs((median - historicalMean) / historicalStdDev) > k, exactly: with
\* n medians of sum S the mean is S / n and the deviation squared is
\* Sum (n * h - S)^2 / n^3, so z^2 = n * (n * median - S)^2 / Sum (n * h - S)^2
\* and the test is k^2 * Sum (n * h - S)^2 < n * (n * median - S)^2.  A
\* deviation of 0 gives Infinity (above every k) unless the median is the
\* mean, which gives NaN.
ZScoreAbove(median, historicalMedians, k) ==
    LET n == Len(historicalMedians)
        S == SumInts(Values(historicalMedians))
    IN  /\ ~median.nan
        /\ ~AnyNaN(historicalMedians)
        /\ WideLess(WideScale(SquaredDeviations(historicalMedians), k * k),
                    WideScale(Normal(WideSquare(n * median.v - S)), n))

\* the same z-score is below k
ZScoreBelow(median, historicalMedians, k) ==
    LET n == Len(historicalMedians)
        S == SumInts(Values(historicalMedians))
    IN  /\ ~median.nan
        /\ ~AnyNaN(historicalMedians)
        /\ WideLess(WideScale(Normal(WideSquare(n * median.v - S)), n),
                    WideScale(SquaredDeviations(historicalMedians), k * k))

\* detectHistoricalAnomalies(median, scores): nothing with fewer than 5
\* records; else one anomaly when the z-score is above 2.0.  Its severity
\* min(zScore / 3, 1) is carried in thirds, rounded down: 1 from a z-score
\* of 3 on, 2/3 below.
detectHistoricalAnomalies(median, history) ==
    LET historicalMedians == [i \in 1..Len(history) |-> history[i].median]
    IN  IF Len(historicalMedians) < 5 THEN NoAnomalies
        ELSE IF ZScoreAbove(median, historicalMedians, 2)
        THEN [threw |-> FALSE, anomalies |-> <<"historical_median_anomaly">>,
              severityNum |-> IF ZScoreBelow(median, historicalMedians, 3)
                              THEN 2 ELSE 3]
        ELSE NoAnomalies

\* what an object that is no number gives in arithmetic: data - mean is NaN
ObjectAsNumber == NaN

\* detect: (median, scores) => this.detectHistoricalAnomalies(median, scores)
\* as detectAnomalies calls it: the first argument is the whole data object
detectHistoricalOnData(data, history) ==
    detectHistoricalAnomalies(ObjectAsNumber, history)

\* detect: (scores) => this.detectStatisticalAnomalies(scores) and
\* detect: (teams) => this.detectProjectionAnomalies(teams), both handed the
\* data object: scores.reduce and teams.forEach are not functions
detectStatisticalOnData(data) == DetectorThrew

detectProjectionOnData(data) == DetectorThrew

\* team.proj of a team that has none: undefined, NaN in arithmetic
NoProjection == -1

ProjOf(team) == IF team.proj = NoProjection THEN NaN ELSE Num(team.proj)

\* Math.abs(team.score - team.proj) / team.proj, exactly, in cents: NaN, or
\* Infinity (a division of a positive number by 0), or the fraction num / den
ProjectionVariance(team) ==
    LET score == ScoreOf(team)
        proj == ProjOf(team)
        diff == JsSub(score, proj)
    IN  IF diff.nan \/ (diff.v = 0 /\ proj.v = 0)
        THEN [nan |-> TRUE, inf |-> FALSE, num |-> 0, den |-> 1]
        ELSE IF proj.v = 0
        THEN [nan |-> FALSE, inf |-> TRUE, num |-> 1, den |-> 0]
        ELSE [nan |-> FALSE, inf |-> FALSE,
              num |-> Abs(diff.v) \div 2, den |-> proj.v \div 2]

\* projectionVariance > 0.5
VarianceAboveHalf(variance) ==
    /\ ~variance.nan
    /\ variance.inf \/ 2 * variance.num > variance.den

\* Math.min(projectionVariance, 1), as a fraction
SeverityOfVariance(variance) ==
    IF variance.inf \/ variance.num >= variance.den THEN [num |-> 1, den |-> 1]
    ELSE [num |-> variance.num, den |-> variance.den]

\* a >= b for two fractions with positive denominators
FractionAtLeast(a, b) == a.num * b.den >= b.num * a.den

\* detectProjectionAnomalies(teams) on a list of teams: one anomaly for each
\* team whose variance is above 0.5, in the order of the list; index counts
\* from 0
detectProjectionAnomalies(teams) ==
    LET found == SelectSeq([i \in 1..Len(teams) |-> i],
                     LAMBDA i : VarianceAboveHalf(ProjectionVariance(teams[i])))
        anomalies == [k \in 1..Len(found) |->
                         [index |-> found[k] - 1,
                          team |-> teams[found[k]].team,
                          type |-> "projection_variance",
                          severity |-> SeverityOfVariance(
                                           ProjectionVariance(teams[found[k]]))]]
        severities == {anomalies[k].severity : k \in 1..Len(anomalies)}
    IN  [hasAnomalies |-> anomalies # <<>>,
         anomalies |-> anomalies,
         severity |-> IF anomalies = <<>> THEN [num |-> 0, den |-> 1]
                      ELSE CHOOSE m \in severities :
                               \A x \in severities : FractionAtLeast(m, x)]

RECURSIVE ConcatAnomalies(_)
ConcatAnomalies(results) ==
    IF results = <<>> THEN <<>>
    ELSE results[1].anomalies \o ConcatAnomalies(Tail(results))

\* a variant in which a higher detector confidence outweighs the severity
aggregateByConfidence(results) ==
    LET allAnomalies == ConcatAnomalies(results)
        sev == {results[i].severityNum * results[i].confidence :
                   i \in 1..Len(results)} \cup {0}
    IN  [hasAnomalies |-> allAnomalies # <<>>,
         anomalies |-> allAnomalies,
         severityNum |-> (CHOOSE m \in sev : \A x \in sev : x <= m) \div 100,
         detectorResults |-> results]

aggregateAnomalyResults(results) ==
    LET allAnomalies == ConcatAnomalies(results)
        sev == {results[i].severityNum : i \in 1..Len(results)} \cup {0}
    IN  [hasAnomalies |-> allAnomalies # <<>>,
         anomalies |-> allAnomalies,
         severityNum |-> CHOOSE m \in sev : \A x \in sev : x <= m,
         detectorResults |-> results]

\* the detectors in the order setupAnomalyDetectors registers them
DetectorNames == <<"statistical", "historical", "pattern", "projection">>

\* the type of the anomalies each detector pushes
FindingType(name) ==
    CASE name = "statistical" -> "statistical_outlier"
      [] name = "historical" -> "historical_median_anomaly"
      [] name = "pattern" -> "score_clustering"
      [] name = "projection" -> "projection_variance"

\* detector.confidence, in percent
Confidence(name) ==
    CASE name = "statistical" -> 90
      [] name = "historical" -> 85
      [] name = "pattern" -> 80
      [] name = "projection" -> 75

\* detector.detect(data): every detector is handed the one data object
Detect(name, data, history) ==
    CASE name = "statistical" -> detectStatisticalOnData(data)
      [] name = "historical" -> detectHistoricalOnData(data, history)
      [] name = "pattern" -> detectPatternAnomalies(data)
      [] name = "projection" -> detectProjectionOnData(data)

\* one turn of the loop: {detector: name, ...detection, confidence}, or the
\* exception the detector threw
DetectorRun(name, data, history) ==
    LET detection == Detect(name, data, history)
    IN  [detector |-> name, threw |-> detection.threw,
         anomalies |-> detection.anomalies,
         severityNum |-> detection.severityNum,
         confidence |-> Confidence(name)]

DetectorRuns(data, history) ==
    [i \in 1..Len(DetectorNames) |-> DetectorRun(DetectorNames[i], data, history)]

\* a variant in which the first exception ends the loop
CaughtEndsLoop(runs) ==
    LET thrown == {i \in 1..Len(runs) : runs[i].threw}
    IN  IF thrown = {} THEN runs
        ELSE SubSeq(runs, 1, (CHOOSE i \in thrown : \A j \in thrown : i <= j) - 1)

\* a detector that threw is caught and contributes no report
Caught(runs) == SelectSeq(runs, LAMBDA r : ~r.threw)

detectAnomalies(data, history) ==
    aggregateAnomalyResults(Caught(DetectorRuns(data, history)))

\* result.median is undefined (NaN here) when the result has none
performAnomalyDetection(res, history) ==
    detectAnomalies([median |-> res.median, teams |-> res.teams,
                     scores |-> Scores(res.teams)], history)

\* anomalyCheck.hasAnomalies && anomalyCheck.severity > 0.8, in thirds
NeedsReview(check) == check.hasAnomalies /\ 10 * check.severityNum > 8 * 3

(***************************************************************************)
(* Self-tuning of the detectors' sensitivity, in percent                   *)
(***************************************************************************)
Max(a, b) == IF a >= b THEN a ELSE b

Min(a, b) == IF a <= b THEN a ELSE b

\* a variant without the lower limit
AdaptedSensitivityNoFloor(s, performance) ==
    IF JsGt(performance.falsePositives, Num(20)) THEN s - 5
    ELSE IF JsGt(performance.missedAnomalies, Num(10)) THEN Min(100, s + 5)
    ELSE s

\* falsePositives > 0.2: Math.max(0.1, sensitivity - 0.05); else
\* missedAnomalies > 0.1: Math.min(1.0, sensitivity + 0.05)
AdaptedSensitivity(s, performance) ==
    IF JsGt(performance.falsePositives, Num(20)) THEN Max(10, s - 5)
    ELSE IF JsGt(performance.missedAnomalies, Num(10)) THEN Min(100, s + 5)
    ELSE s

\* adaptSensitivity(detectorName, performance): nothing for an unknown name
adaptSensitivity(sens, detectorName, performance) ==
    IF detectorName \in DOMAIN sens
    THEN [sens EXCEPT ![detectorName] = AdaptedSensitivity(@, performance)]
    ELSE sens

\* updateAnomalyParameters(patterns): every detector, when
\* patterns.averageAccuracy > 0.9 (undefined, NaN here, is not)
updateAnomalyParameters(sens, patterns) ==
    [name \in DOMAIN sens |->
        IF JsGt(patterns.averageAccuracy, Num(90)) THEN Min(100, sens[name] + 2)
        ELSE sens[name]]

(***************************************************************************)
(* ScoringAgent: history                                                   *)
(***************************************************************************)
\* the record pushed for a result; its clock readings (timestamp,
\* calculationTime) are not carried
HistoryRecord(res) ==
    [median |-> res.median, algorithm |-> res.algorithm,
     confidence |-> res.confidence, quality |-> res.quality]

\* a variant that drops the record just pushed when the history is full
storeCalculationHistoryPop(history, res) ==
    LET pushed == Append(history, HistoryRecord(res))
    IN  IF Len(pushed) > historyCapacity
        THEN SubSeq(pushed, 1, Len(pushed) - 1) ELSE pushed

\* push, then shift once the length is over 100
storeCalculationHistory(history, res) ==
    LET pushed == Append(history, HistoryRecord(res))
    IN  IF Len(pushed) > historyCapacity THEN Tail(pushed) ELSE pushed

(***************************************************************************)
(* The data the model supplies.  Scores are written in cents.              *)
(***************************************************************************)
\* Scenario A of the specification, highest first (standard deviation 14.9)
ScenarioA ==
    <<12420, 11750, 11150, 10730, 10150, 9740, 9430, 9160, 8720, 8330, 7870, 7442>>

\* the projections of the same sample
ScenarioAProj ==
    <<10050, 9800, 10290, 9340, 9720, 10410, 10100, 9720, 10490, 10080, 9600, 9960>>

\* seven teams on the same score, among them the 6th and the 7th
Tied ==
    <<12000, 11000, 10000, 10000, 10000, 10000, 10000, 10000, 10000, 9000, 8000, 7000>>

\* standard deviation 1.7: below the band of validateScoreConsistency
Clustered ==
    <<10300, 10250, 10200, 10150, 10100, 10050, 10000, 9950, 9900, 9850, 9800, 9750>>

\* standard deviation above 50, with both ends of the score range
Wide ==
    <<30000, 28000, 25000, 22000, 20000, 15000, 14000, 10000, 5000, 2000, 1000, 0>>

\* one score 3.3 standard deviations above the mean of the twelve
Outlier ==
    <<25000, 10250, 10200, 10150, 10100, 10050, 10000, 9950, 9900, 9850, 9800, 9750>>

\* Scenario D: twelve identical scores
AllEqual == [i \in 1..12 |-> 10000]

\* how far the 6th and 7th scores of Scenario A are moved up and down from
\* 95.85, its median, in cents
MaxDelta == 2

\* how many rearrangements of a list are tried besides the given order
MaxOrder == 3

WithMid(base, sixth, seventh) == [base EXCEPT ![6] = sixth, ![7] = seventh]

Team(id, cents, projCents) ==
    [team |-> id, kind |-> "number", score |-> Cents(cents), proj |-> Cents(projCents)]

\* the projections are those of the sample
Teams(centsList) ==
    [i \in 1..Len(centsList) |-> Team(i, centsList[i], ScenarioAProj[i])]

Reverse(s) == [i \in 1..Len(s) |-> s[Len(s) + 1 - i]]

Rotate(s, k) == [i \in 1..Len(s) |-> s[((i - 1 + k) % Len(s)) + 1]]

\* the odd places first, then the even ones
Interleave(s) ==
    LET half == (Len(s) + 1) \div 2
    IN  [i \in 1..Len(s) |-> IF i <= half THEN s[2 * i - 1] ELSE s[2 * (i - half)]]

Order(s, k) ==
    CASE k = 0 -> s
      [] k = 1 -> Reverse(s)
      [] k = 2 -> Interleave(s)
      [] OTHER -> Rotate(Interleave(s), k)

Array(items) == [isArray |-> TRUE, items |-> items]

\* the only value modelled that is no list: null
Null == [isArray |-> FALSE, items |-> <<>>]

MidVariants ==
    {WithMid(ScenarioA, 9585 + a, 9585 - b) : a, b \in 0..MaxDelta}

Bases == MidVariants \cup {ScenarioA, Tied, Clustered, Wide, Outlier, AllEqual}

Rearranged == {Order(Teams(b), k) : b \in Bases, k \in 0..MaxOrder}

\* one team too few, one too many
Miscounted ==
    {SubSeq(Teams(b), 1, teamCount - 1) : b \in {ScenarioA, AllEqual}}
    \cup {Append(Teams(b), Team(teamCount + 1, 9000, 9500)) : b \in {ScenarioA, AllEqual}}

\* a score just outside [0, 300]
OutOfRange ==
    {[Teams(b) EXCEPT ![p].score = Cents(c)] :
        b \in {ScenarioA, AllEqual}, p \in {1, 6, 12}, c \in {30001, -1}}

\* a score that is NaN, or a text that is no numeral, among equal scores:
\* every comparison of the sort is then 0 and the order is the given one
NotNumeric ==
    {[Teams(AllEqual) EXCEPT ![p].kind = k] :
        p \in {1, 6, 12}, k \in {"NaN", "string"}}

\* a team that carries the identifier of another, or none (identifier 0)
BadIdentifier ==
    {[Teams(b) EXCEPT ![p].team = id] :
        b \in {ScenarioA, AllEqual}, p \in {2, 12}, id \in {0, 1}}

Inputs ==
    {Array(t) : t \in Rearranged \cup Miscounted \cup OutOfRange \cup NotNumeric
                      \cup BadIdentifier}
    \cup {Null}

(***************************************************************************)
(* ScoringAgent: the engine                                                *)
(***************************************************************************)
\* algorithm.accuracy, as setupScoringAlgorithms sets it
Accuracy(name) ==
    CASE name = "rffl_standard" -> 100
      [] name = "statistical_median" -> 95
      [] name = "weighted_median" -> 90

\* the strategy registered under a name, applied
Strategy(name, items) ==
    CASE name = "rffl_standard" -> calculateRFFLMedian(items)
      [] name = "statistical_median" -> calculateStatisticalMedian(items)
      [] name = "weighted_median" -> calculateWeightedMedian(items, None)

\* an exception of the strategy passes through; calculationTime, a clock
\* difference, is not carried
calculateWithAlgorithm(name, items) ==
    LET r == Strategy(name, items)
    IN  IF r.threw THEN Thrown
        ELSE [r EXCEPT !.algorithm = name, !.confidence = Accuracy(name)]

\* a variant in which calculate starts with the algorithm of the highest
\* priority
PrimaryByPriority ==
    CHOOSE name \in DOMAIN priority :
        \A other \in DOMAIN priority : priority[other] <= priority[name]

PrimaryAlgorithm == "rffl_standard"

\* variants of the fallback list: the two in the other order, and the
\* weighted algorithm left out
FallbackReordered == <<"weighted_median", "statistical_median">>

FallbackStatisticalOnly == <<"statistical_median">>

\* const algorithms = ['statistical_median', 'weighted_median']
FallbackAlgorithms == <<"statistical_median", "weighted_median">>

NoCheck == aggregateAnomalyResults(<<>>)

\* the names setupScoringAlgorithms registers, in its order
AlgorithmNames == <<"rffl_standard", "statistical_median", "weighted_median">>

\* algorithm.priority and detector.sensitivity as the constructor sets them
InitialPriority ==
    [name \in {AlgorithmNames[i] : i \in 1..3} |->
        CASE name = "rffl_standard" -> 100
          [] name = "statistical_median" -> 80
          [] name = "weighted_median" -> 60]

InitialSensitivity ==
    [name \in {DetectorNames[i] : i \in 1..4} |->
        CASE name = "statistical" -> 80
          [] name = "historical" -> 70
          [] name = "pattern" -> 75
          [] name = "projection" -> 60]

AsRegistered == priority = InitialPriority /\ sensitivity = InitialSensitivity

\* no strategy has been called directly
NeverCalled ==
    [name \in {AlgorithmNames[i] : i \in 1..3} |-> [calls |-> 0, first |-> Thrown]]

NotCalledDirectly == supplied = Null /\ earlier = NeverCalled /\ suppliedWeights = None

Init ==
    /\ teamData \in Inputs
    /\ op = "none"
    /\ pc = "idle"
    /\ attempts = <<>>
    /\ verdicts = <<>>
    /\ validated = FALSE
    /\ primaryResult = Thrown
    /\ result = Thrown
    /\ fbIndex = 0
    /\ anomalyCheck = NoCheck
    /\ flagged = FALSE
    /\ stored = FALSE
    /\ outcome = "none"
    /\ returned = Thrown
    /\ medianHistory = <<>>
    /\ recorded = <<>>
    /\ reports = <<>>
    /\ NotCalledDirectly
    /\ AsRegistered

\* fresh data arrives once no operation is in progress
NewData ==
    /\ pc = "done"
    /\ teamData' \in Inputs
    /\ op' = "none"
    /\ pc' = "idle"
    /\ attempts' = <<>>
    /\ verdicts' = <<>>
    /\ validated' = FALSE
    /\ primaryResult' = Thrown
    /\ result' = Thrown
    /\ fbIndex' = 0
    /\ anomalyCheck' = NoCheck
    /\ flagged' = FALSE
    /\ stored' = FALSE
    /\ outcome' = "none"
    /\ returned' = Thrown
    /\ UNCHANGED <<medianHistory, directVars, tuning>>

\* intelligentCalculator.calculate, up to its first await: pre-validation,
\* then the primary algorithm, which runs before calculateWithAlgorithm yields
Calculate ==
    /\ pc = "idle"
    /\ op' = "calculate"
    /\ LET preValidation == preValidateData(teamData)
           r == calculateWithAlgorithm(PrimaryAlgorithm, teamData.items)
       IN  IF ~preValidation.isValid
           THEN /\ pc' = "done"
                /\ outcome' = "Pre-validation failed"
                /\ UNCHANGED <<attempts, validated, primaryResult>>
           ELSE /\ validated' = TRUE
                /\ attempts' = <<PrimaryAlgorithm>>
                /\ primaryResult' = r
                /\ IF r.threw
                   THEN pc' = "done" /\ outcome' = "Strategy threw"
                   ELSE pc' = "await_primary" /\ UNCHANGED outcome
    /\ UNCHANGED <<teamData, verdicts, result, fbIndex, anomalyCheck, flagged,
                   stored, returned, medianHistory>>
    /\ UNCHANGED <<directVars, tuning>>

\* calculateWithFallback calls the algorithm at place k of its list
\* a variant that goes back to the first algorithm of the list each time
TryFallbackAgain(k) ==
    /\ fbIndex' = k
    /\ attempts' = Append(attempts, FallbackAlgorithms[1])
    /\ result' = calculateWithAlgorithm(FallbackAlgorithms[1], teamData.items)
    /\ pc' = "await_fallback"
    /\ UNCHANGED <<outcome, returned>>

TryFallback(k) ==
    /\ fbIndex' = k
    /\ attempts' = Append(attempts, FallbackAlgorithms[k])
    /\ result' = calculateWithAlgorithm(FallbackAlgorithms[k], teamData.items)
    /\ pc' = "await_fallback"
    /\ UNCHANGED <<outcome, returned>>

\* a variant that returns the last result when every algorithm was rejected
ExhaustedReturnsLast ==
    /\ returned' = result
    /\ outcome' = "returned"
    /\ pc' = "done"
    /\ UNCHANGED <<attempts, result, fbIndex, medianHistory>>

\* a variant that records the last rejected result before it gives up
ExhaustedStoresLast ==
    /\ medianHistory' = storeCalculationHistory(medianHistory, result)
    /\ outcome' = "All calculation algorithms failed"
    /\ pc' = "done"
    /\ UNCHANGED <<attempts, result, fbIndex, returned>>

\* throw new Error('All calculation algorithms failed')
Exhausted ==
    /\ outcome' = "All calculation algorithms failed"
    /\ pc' = "done"
    /\ UNCHANGED <<attempts, result, fbIndex, returned, medianHistory>>

\* calculate and calculateWithFallback from one await to the next
Resume ==
    /\ op = "calculate"
    /\ pc \in {"await_primary", "await_fallback", "await_anomaly"}
    /\ CASE pc = "await_primary" ->
              LET validation == validateResult(primaryResult)
              IN  /\ verdicts' = Append(verdicts, validation.isValid)
                  /\ IF ~validation.isValid
                     THEN /\ TryFallback(1)
                          /\ UNCHANGED <<anomalyCheck, flagged, stored, medianHistory>>
                     ELSE /\ anomalyCheck' =
                                 performAnomalyDetection(primaryResult, medianHistory)
                          /\ pc' = "await_anomaly"
                          /\ UNCHANGED <<attempts, result, fbIndex, flagged, stored,
                                         outcome, returned, medianHistory>>
         [] pc = "await_fallback" ->
              LET valid == ~result.threw /\ validateResult(result).isValid
              IN  /\ verdicts' = IF result.threw THEN verdicts
                                 ELSE Append(verdicts, valid)
                  /\ IF valid
                     THEN /\ returned' = result
                          /\ outcome' = "returned"
                          /\ pc' = "done"
                          /\ UNCHANGED <<attempts, result, fbIndex, medianHistory>>
                     ELSE IF fbIndex < Len(FallbackAlgorithms)
                          THEN TryFallback(fbIndex + 1) /\ UNCHANGED medianHistory
                          ELSE Exhausted
                  /\ UNCHANGED <<anomalyCheck, flagged, stored>>
         [] pc = "await_anomaly" ->
              /\ flagged' = NeedsReview(anomalyCheck)
              /\ medianHistory' = storeCalculationHistory(medianHistory, primaryResult)
              /\ stored' = TRUE
              /\ returned' = primaryResult
              /\ outcome' = "returned"
              /\ pc' = "done"
              /\ UNCHANGED <<attempts, verdicts, result, fbIndex, anomalyCheck>>
    /\ UNCHANGED <<teamData, op, validated, primaryResult>>
    /\ UNCHANGED <<directVars, tuning>>

\* executeRecalculation(params): getCurrentScoringData, then the algorithm
\* params.useAlternativeAlgorithm chooses; params.flagForManualReview only
\* publishes a message
executeRecalculation(useAlternativeAlgorithm) ==
    /\ pc = "idle"
    /\ op' = "executeRecalculation"
    /\ pc' = "done"
    /\ IF ~teamData.isArray
       THEN /\ outcome' = "No data available for recalculation"
            /\ UNCHANGED <<attempts, result, returned>>
       ELSE LET algorithm == IF useAlternativeAlgorithm THEN "statistical_median"
                             ELSE "rffl_standard"
                r == calculateWithAlgorithm(algorithm, teamData.items)
            IN  /\ attempts' = <<algorithm>>
                /\ result' = r
                /\ returned' = r
                /\ outcome' = IF r.threw THEN "Strategy threw" ELSE "returned"
    /\ UNCHANGED <<teamData, verdicts, validated, primaryResult, fbIndex,
                   anomalyCheck, flagged, stored, medianHistory>>
    /\ UNCHANGED <<directVars, tuning>>

Recalculate == \E useAlternativeAlgorithm \in BOOLEAN :
                   executeRecalculation(useAlternativeAlgorithm)

\* window.medianCalculator.calculateMedian(teamScores), not enhanced
MedianCalculate ==
    /\ pc = "idle"
    /\ op' = "calculateMedian"
    /\ pc' = "done"
    /\ LET r == calculateMedian(teamData)
       IN  /\ attempts' = IF r.threw THEN <<>> ELSE <<"MedianCalculator">>
           /\ result' = r
           /\ returned' = r
           /\ outcome' = IF r.threw THEN "Strategy threw" ELSE "returned"
    /\ UNCHANGED <<teamData, verdicts, validated, primaryResult, fbIndex,
                   anomalyCheck, flagged, stored, medianHistory>>
    /\ UNCHANGED <<directVars, tuning>>

\* runAnomalyCheck, on the message 'scoring.anomaly.check': anomaly detection
\* on { teams: currentData }, and a message when it finds anything
RunAnomalyCheck ==
    /\ pc = "idle"
    /\ op' = "runAnomalyCheck"
    /\ pc' = "done"
    /\ IF ~teamData.isArray
       THEN /\ outcome' = "No data available"
            /\ UNCHANGED anomalyCheck
       ELSE LET check == performAnomalyDetection(
                             [median |-> NaN, teams |-> teamData.items],
                             medianHistory)
            IN  /\ anomalyCheck' = check
                /\ outcome' = IF check.hasAnomalies THEN "scoring.anomaly.found"
                              ELSE "checked"
    /\ UNCHANGED <<teamData, attempts, verdicts, validated, primaryResult, result,
                   fbIndex, flagged, stored, returned, medianHistory>>
    /\ UNCHANGED <<directVars, tuning>>

Next ==
    \/ NewData
    \/ Calculate
    \/ Resume
    \/ Recalculate
    \/ MedianCalculate
    \/ RunAnomalyCheck

Spec == Init /\ [][Next]_vars

\* calculate stands at an await: Resume, and no other action, is enabled
Awaiting ==
    op = "calculate" /\ pc \in {"await_primary", "await_fallback", "await_anomaly"}

\* A step of Resume as the event loop sees it: calculate stood at an await
\* and has gone on, to another await, to the next algorithm of the list or
\* to its end.  Every step of Resume changes pc or fbIndex, so on the
\* behaviours of Next these are the steps of Resume.
Resumed ==
    /\ Awaiting
    /\ pc' \in {"await_fallback", "await_anomaly", "done"}
    /\ fbIndex' \in 0..Len(FallbackAlgorithms)

\* The engine under the scheduling of the event loop: what calculate awaits
\* are promises of async methods that have already run, and the loop resumes
\* a continuation whose promise is settled.
FairSpec == Init /\ [][Next]_vars /\ WF_<<pc, fbIndex>>(Resumed)

(***************************************************************************)
(* The agent's methods called directly, the engine at rest                 *)
(***************************************************************************)
\* no operation of the engine has started
AtRest ==
    /\ op = "none"
    /\ pc = "idle"
    /\ attempts = <<>>
    /\ verdicts = <<>>
    /\ validated = FALSE
    /\ primaryResult = Thrown
    /\ result = Thrown
    /\ fbIndex = 0
    /\ anomalyCheck = NoCheck
    /\ flagged = FALSE
    /\ stored = FALSE
    /\ outcome = "none"
    /\ returned = Thrown

engineVars ==
    <<op, pc, attempts, verdicts, validated, primaryResult, result, fbIndex,
      anomalyCheck, flagged, stored, outcome, returned>>

\* how many results are recorded beyond the capacity of the history
MaxOverflow == 3

MaxRecordings == historyCapacity + MaxOverflow

\* The algorithms whose result may be the next one recorded.  While the
\* history fills they take turns; from the record that fills it on, any.
Recordable(k) ==
    IF k < historyCapacity - 1 THEN {AlgorithmNames[(k % 3) + 1]}
    ELSE {AlgorithmNames[i] : i \in 1..3}

HistoryInputs == {Array(Teams(b)) : b \in {ScenarioA, Tied, Wide}}

HistoryInit ==
    /\ teamData \in HistoryInputs
    /\ AtRest
    /\ medianHistory = <<>>
    /\ recorded = <<>>
    /\ reports = <<>>
    /\ NotCalledDirectly
    /\ AsRegistered

\* this.storeCalculationHistory(result), for the result of one algorithm
RecordResult(name) ==
    /\ Len(recorded) < MaxRecordings
    /\ LET res == calculateWithAlgorithm(name, teamData.items)
       IN  /\ medianHistory' = storeCalculationHistory(medianHistory, res)
           /\ recorded' = Append(recorded, HistoryRecord(res))
    /\ UNCHANGED <<teamData, engineVars, reports, supplied, earlier,
                   suppliedWeights, tuning>>

HistoryNext == \E name \in Recordable(Len(recorded)) : RecordResult(name)

HistorySpec == HistoryInit /\ [][HistoryNext]_vars

\* how many anomalies a report handed to the aggregator holds at most
MaxFindings == 2

\* the highest severity of a report, in thirds: min(x / 3, 1) is at most 1
FullSeverity == 3

Repeat(x, n) == [i \in 1..n |-> x]

\* the reports a detector can push: without anomalies and severity 0, or
\* with anomalies of its type and their highest severity
ReportsOf(name) ==
    {[detector |-> name, threw |-> FALSE, anomalies |-> <<>>, severityNum |-> 0,
      confidence |-> Confidence(name)]}
    \cup {[detector |-> name, threw |-> FALSE,
           anomalies |-> Repeat(FindingType(name), n), severityNum |-> sev,
           confidence |-> Confidence(name)] :
             n \in 1..MaxFindings, sev \in 1..FullSeverity}

\* The lists detectAnomalies can collect: at most one report of each
\* detector, in the order of registration (k reports from detector d on).
RECURSIVE ReportLists(_)
ReportLists(d) ==
    IF d > Len(DetectorNames) THEN {<<>>}
    ELSE ReportLists(d + 1)
         \cup {<<r>> \o rest : r \in ReportsOf(DetectorNames[d]),
                                rest \in ReportLists(d + 1)}

AggregatorInit ==
    /\ teamData = Null
    /\ AtRest
    /\ medianHistory = <<>>
    /\ recorded = <<>>
    /\ reports \in ReportLists(1)
    /\ NotCalledDirectly
    /\ AsRegistered

\* this.aggregateAnomalyResults(results)
Aggregate ==
    /\ pc = "idle"
    /\ op' = "aggregateAnomalyResults"
    /\ pc' = "done"
    /\ anomalyCheck' = aggregateAnomalyResults(reports)
    /\ UNCHANGED <<teamData, attempts, verdicts, validated, primaryResult, result,
                   fbIndex, flagged, stored, outcome, returned, medianHistory,
                   directVars, tuning>>

AggregatorSpec == AggregatorInit /\ [][Aggregate]_vars

\* how often each strategy is called directly on the same data
MaxCalls == 2

\* a variant in which the strategy sorts the list it was given
InputSortedInPlace(data) == Array(SortDesc(data.items))

\* What a strategy call leaves in the list it was given: teamData.map makes
\* a new list both times, and sort orders that new list.
InputAfterCall(data) == data

StrategyInit ==
    /\ teamData \in Inputs \ {Null}
    /\ AtRest
    /\ medianHistory = <<>>
    /\ recorded = <<>>
    /\ reports = <<>>
    /\ supplied = teamData
    /\ earlier = NeverCalled
    /\ suppliedWeights = None
    /\ AsRegistered

\* this.calculateRFFLMedian(teamData), this.calculateStatisticalMedian(teamData)
\* or this.calculateWeightedMedian(teamData), called on the data at hand
CallStrategy(name) ==
    /\ earlier[name].calls < MaxCalls
    /\ LET r == Strategy(name, teamData.items)
       IN  /\ result' = r
           /\ earlier' = [earlier EXCEPT ![name] =
                             [calls |-> @.calls + 1,
                              first |-> IF @.calls = 0 THEN r ELSE @.first]]
    /\ teamData' = InputAfterCall(teamData)
    /\ op' = name
    /\ UNCHANGED <<pc, attempts, verdicts, validated, primaryResult, fbIndex,
                   anomalyCheck, flagged, stored, outcome, returned, medianHistory,
                   recorded, reports, supplied, suppliedWeights,
                   tuning>>

StrategyNext == \E i \in 1..Len(AlgorithmNames) : CallStrategy(AlgorithmNames[i])

StrategySpec == StrategyInit /\ [][StrategyNext]_vars

(***************************************************************************)
(* The historical detector against a history with records.  calculate never*)
(* stores a record, so the history is filled by storeCalculationHistory    *)
(* called on standard results, and performAnomalyDetection is called on a  *)
(* standard result as calculate calls it.                                  *)
(***************************************************************************)
\* how many records the history holds at most in this specification
MaxMedians == 6

DetectionInputs == {Array(Teams(b)) : b \in {ScenarioA, Tied, Wide}}

DetectionInit ==
    /\ teamData \in DetectionInputs
    /\ AtRest
    /\ medianHistory = <<>>
    /\ recorded = <<>>
    /\ reports = <<>>
    /\ NotCalledDirectly
    /\ AsRegistered

\* this.storeCalculationHistory(result) for the standard result on new data
RecordMedian ==
    /\ Len(medianHistory) < MaxMedians
    /\ teamData' \in DetectionInputs
    /\ LET res == calculateWithAlgorithm(PrimaryAlgorithm, teamData'.items)
       IN  /\ result' = res
           /\ medianHistory' = storeCalculationHistory(medianHistory, res)
           /\ recorded' = Append(recorded, HistoryRecord(res))
    /\ op' = "storeCalculationHistory"
    /\ anomalyCheck' = NoCheck
    /\ UNCHANGED <<pc, attempts, verdicts, validated, primaryResult, fbIndex,
                   flagged, stored, outcome, returned, reports, supplied,
                   earlier, suppliedWeights,
                   tuning>>

\* this.performAnomalyDetection(result) for the standard result on new data
PerformAnomalyDetection ==
    /\ teamData' \in DetectionInputs
    /\ LET res == calculateWithAlgorithm(PrimaryAlgorithm, teamData'.items)
       IN  /\ result' = res
           /\ anomalyCheck' = performAnomalyDetection(res, medianHistory)
    /\ op' = "performAnomalyDetection"
    /\ UNCHANGED <<pc, attempts, verdicts, validated, primaryResult, fbIndex,
                   flagged, stored, outcome, returned, medianHistory, recorded,
                   reports, supplied, earlier, suppliedWeights,
                   tuning>>

DetectionNext == RecordMedian \/ PerformAnomalyDetection

DetectionSpec == DetectionInit /\ [][DetectionNext]_vars

(***************************************************************************)
(* The projection detector called on a list of teams                       *)
(***************************************************************************)
WithProj(items, i, proj) == [items EXCEPT ![i].proj = proj]

WithScore(items, i, score) == [items EXCEPT ![i].score = score]

\* projections for the first and the last team of the sample (124.20 and
\* 74.42): none, 0, the sample's own, and 82.80, 80.00, 50.00, 200.00
Projections(own) ==
    {NoProjection, 0, own, Cents(8280), Cents(8000), Cents(5000), Cents(20000)}

ProjectionInputs ==
    LET sample == Teams(ScenarioA)
    IN  {Array(WithScore(WithProj(WithProj(sample, 1, p), 12, q), 12, s)) :
            p \in Projections(sample[1].proj),
            q \in Projections(sample[12].proj),
            s \in {sample[12].score, 0}}

ProjectionInit ==
    /\ teamData \in ProjectionInputs
    /\ AtRest
    /\ medianHistory = <<>>
    /\ recorded = <<>>
    /\ reports = <<>>
    /\ NotCalledDirectly
    /\ AsRegistered

\* this.detectProjectionAnomalies(teams)
DetectProjection ==
    /\ pc = "idle"
    /\ op' = "detectProjectionAnomalies"
    /\ pc' = "done"
    /\ reports' = <<detectProjectionAnomalies(teamData.items)>>
    /\ UNCHANGED <<teamData, attempts, verdicts, validated, primaryResult, result,
                   fbIndex, anomalyCheck, flagged, stored, outcome, returned,
                   medianHistory, recorded, supplied, earlier, suppliedWeights,
                   tuning>>

ProjectionSpec == ProjectionInit /\ [][DetectProjection]_vars

(***************************************************************************)
(* The weighted strategy called with weights, on lists of any length       *)
(***************************************************************************)
\* the longest list the weighted strategy is called on with every choice of
\* weights, and the highest weight
MaxTeams == 4

MaxWeight == 2

\* the scores of those lists: 90.00 and 95.85
FewScores == {Cents(9000), Cents(9585)}

\* every list of n teams with those scores, numbered in the order of the list
FewTeams(n) ==
    {[i \in 1..n |-> [team |-> i, kind |-> "number", score |-> f[i],
                      proj |-> f[i]]] : f \in [1..n -> FewScores]}

\* no weights, or any list of n weights
WeightLists(n) == {None} \cup {Array(w) : w \in [1..n -> 0..MaxWeight]}

\* the short lists with every choice of weights, or a list of 12 with no
\* weights or with equal weights
WeightedInit ==
    /\ \/ \E n \in 1..MaxTeams :
             \E items \in FewTeams(n), w \in WeightLists(n) :
                 teamData = Array(items) /\ suppliedWeights = w
       \/ \E b \in {ScenarioA, Tied, Wide}, c \in 0..MaxWeight :
             /\ teamData = Array(Teams(b))
             /\ suppliedWeights \in {None, Array(Repeat(c, teamCount))}
    /\ AtRest
    /\ medianHistory = <<>>
    /\ recorded = <<>>
    /\ reports = <<>>
    /\ supplied = Null
    /\ earlier = NeverCalled
    /\ AsRegistered

\* this.calculateWeightedMedian(teamData, weights)
CallWeighted ==
    /\ pc = "idle"
    /\ op' = "calculateWeightedMedian"
    /\ pc' = "done"
    /\ result' = calculateWeightedMedian(teamData.items, suppliedWeights)
    /\ UNCHANGED <<teamData, attempts, verdicts, validated, primaryResult,
                   fbIndex, anomalyCheck, flagged, stored, outcome, returned,
                   medianHistory, directVars, tuning>>

WeightedSpec == WeightedInit /\ [][CallWeighted]_vars

(***************************************************************************)
(* The tuning of the sensitivities: adaptSensitivity called with any       *)
(* performance, and updateAnomalyParameters with any patterns              *)
(***************************************************************************)
\* rates in percent, on and beyond the limits 0.2 and 0.1; NaN for none
Rates == {NaN, Num(10), Num(20), Num(25)}

Performances == {[falsePositives |-> f, missedAnomalies |-> m] : f, m \in Rates}

\* averageAccuracy in percent; NaN for the empty patterns of a short history
PatternsGiven == {[averageAccuracy |-> a] : a \in {NaN, Num(90), Num(95)}}

\* the names adaptSensitivity is called with: the detector of the highest
\* and the one of the lowest sensitivity, and a name of no detector
TunedDetectors == {"statistical", "projection", "unknown"}

TuningInit ==
    /\ teamData = Null
    /\ AtRest
    /\ medianHistory = <<>>
    /\ recorded = <<>>
    /\ reports = <<>>
    /\ NotCalledDirectly
    /\ AsRegistered

\* this.anomalySystem.adaptSensitivity(detectorName, performance)
AdaptSensitivity ==
    /\ \E name \in TunedDetectors, performance \in Performances :
          sensitivity' = adaptSensitivity(sensitivity, name, performance)
    /\ UNCHANGED <<teamData, engineVars, medianHistory, directVars, priority>>

\* this.updateAnomalyParameters(patterns)
UpdateAnomalyParameters ==
    /\ \E patterns \in PatternsGiven :
          sensitivity' = updateAnomalyParameters(sensitivity, patterns)
    /\ UNCHANGED <<teamData, engineVars, medianHistory, directVars, priority>>

TuningNext == AdaptSensitivity \/ UpdateAnomalyParameters

TuningSpec == TuningInit /\ [][TuningNext]_vars

(***************************************************************************)
(* The engine with the priorities tuned while it runs: a                   *)
(* 'system.learning.update' message is handled whenever the agent yields   *)
(***************************************************************************)
\* (avgAccuracy * 0.7) + ((1 - avgTime / 1000) * 0.3) in percent, for the
\* mean of the accuracies in percent and totalTime / count in milliseconds
AdjustedPriority(performance) ==
    LET avgAccuracy == SumInts(performance.accuracies)
                           \div Len(performance.accuracies)
        avgTime == performance.totalTime \div performance.count
    IN  (7 * avgAccuracy + 3 * (100 - (avgTime \div 10))) \div 10

\* adjustAlgorithmWeights(patterns): the priority of every registered
\* algorithm that patterns.algorithmPerformance names
adjustAlgorithmWeights(prio, patterns) ==
    [name \in DOMAIN prio |->
        IF name \in DOMAIN patterns.algorithmPerformance
        THEN AdjustedPriority(patterns.algorithmPerformance[name])
        ELSE prio[name]]

\* what a message may report of an algorithm: every calculation wrong and 2
\* seconds each (priority -0.3), or every one right in no time (priority 1.0)
PerformancesReported ==
    {[accuracies |-> <<0, 0>>, totalTime |-> 4000, count |-> 2],
     [accuracies |-> <<100>>, totalTime |-> 0, count |-> 1]}

\* adjustment.data of a message: one algorithm, or a name of none
LearningData ==
    {[algorithmPerformance |-> [n \in {name} |-> performance]] :
        name \in {AlgorithmNames[i] : i \in 1..3} \cup {"unknown"},
        performance \in PerformancesReported}

\* handleMessage('system.learning.update') -> incorporateLearning, for one
\* adjustment of type 'scoring_accuracy'
IncorporateLearning ==
    /\ \E data \in LearningData : priority' = adjustAlgorithmWeights(priority, data)
    /\ UNCHANGED <<teamData, engineVars, medianHistory, directVars, sensitivity>>

TunedNext == Next \/ IncorporateLearning

TunedSpec == Init /\ [][TunedNext]_vars

(***************************************************************************)
(* Properties                                                              *)
(***************************************************************************)
StandardOrder == <<"rffl_standard", "statistical_median", "weighted_median">>

AllNumeric(items) == \A i \in 1..Len(items) : items[i].kind = "number"

\* a ScoreSet of the data model: a list of 12 entries with numeric scores
\* within [0, 300]
ValidScoreSet(data) ==
    /\ data.isArray
    /\ Len(data.items) = 12
    /\ \A i \in 1..Len(data.items) :
          /\ data.items[i].kind = "number"
          /\ data.items[i].score >= 0
          /\ data.items[i].score <= Points(300)

\* the k-th highest score of a list, by counting and without sorting
KthHighest(items, k) ==
    CHOOSE v \in {items[i].score : i \in 1..Len(items)} :
        /\ Cardinality({i \in 1..Len(items) : items[i].score > v}) < k
        /\ Cardinality({i \in 1..Len(items) : items[i].score >= v}) >= k

\* the average of the 6th and 7th highest scores, to the nearest cent
ExpectedMedian(items) ==
    LET avg == (KthHighest(items, 6) + KthHighest(items, 7)) \div 2
    IN  IF avg % 2 = 0 THEN avg ELSE avg + 1

\* the results of the standard strategy the state holds
StandardResults ==
    (IF op = "calculate" /\ ~primaryResult.threw THEN {primaryResult} ELSE {})
    \cup (IF op = "executeRecalculation" /\ ~result.threw
             /\ result.algorithm = "rffl_standard" THEN {result} ELSE {})
    \cup (IF op = "calculateMedian" /\ ~result.threw THEN {result} ELSE {})

\* every result of any strategy the state holds
AllResults ==
    {r \in {primaryResult, result, returned} : ~r.threw}

IsRearranged ==
    \E i \in 1..(Len(teamData.items) - 1) :
        teamData.items[i].score < teamData.items[i + 1].score

FourRulesHold(res) ==
    /\ medianRangeRule(ArgNumber(res.median))
    /\ teamCountRule(ArgArray(res.teams))
    /\ calculationAccuracyRule(ArgObject(res))
    /\ scoreConsistencyRule(ArgArray(res.teams))

\* C2: when the data passes pre-validation and the standard result satisfies
\* the four result rules (median in [0, 300], 12 teams, recomputed median
\* within 0.01, standard deviation strictly between 5 and 50), calculate
\* accepts the standard result at its first validation and returns it
\* without calling the statistical or the weighted strategy.
C2_FirstAttemptAccepted ==
    (/\ op = "calculate"
     /\ pc = "done"
     /\ preValidateData(teamData).isValid
     /\ FourRulesHold(primaryResult))
    => /\ outcome = "returned"
       /\ returned = primaryResult
       /\ attempts = <<"rffl_standard">>
       /\ verdicts = <<TRUE>>

\* C3: in every result of any strategy on numeric scores, each team has
\* exactly one of WIN, LOSS, TIE, and it is WIN iff marginVsMedian > 0,
\* LOSS iff marginVsMedian < 0, TIE iff marginVsMedian = 0.
C3_OutcomePartition ==
    (teamData.isArray /\ AllNumeric(teamData.items))
    => \A r \in AllResults : \A i \in 1..Len(r.teams) :
           LET t == r.teams[i]
           IN  /\ t.result \in {"WIN", "LOSS", "TIE"}
               /\ ~t.marginVsMedian.nan
               /\ (t.result = "WIN") <=> (t.marginVsMedian.v > 0)
               /\ (t.result = "LOSS") <=> (t.marginVsMedian.v < 0)
               /\ (t.result = "TIE") <=> (t.marginVsMedian.v = 0)

\* a weighted-median result that holds a WIN, a LOSS and a TIE
C3_Witness ==
    /\ op = "calculate"
    /\ ~result.threw
    /\ result.algorithm = "weighted_median"
    /\ \E i, j, k \in 1..Len(result.teams) :
          /\ result.teams[i].result = "WIN"
          /\ result.teams[j].result = "LOSS"
          /\ result.teams[k].result = "TIE"

\* C4: in every result, each team's marginVsMedian is its score minus the
\* reported (rounded) median, its outcome is TIE exactly when that margin
\* is 0, and when the 6th and 7th scores are equal the median is that score
\* and every team on it is TIE.
C4_MarginVsReportedMedian ==
    (teamData.isArray /\ Len(teamData.items) = 12 /\ AllNumeric(teamData.items))
    => \A r \in AllResults :
           /\ \A i \in 1..Len(r.teams) :
                 LET t == r.teams[i]
                 IN  /\ t.marginVsMedian = JsSub(Num(t.score), r.median)
                     /\ (t.result = "TIE") <=> (t.score = r.median.v)
           /\ KthHighest(teamData.items, 6) = KthHighest(teamData.items, 7)
                 => r.median = Num(KthHighest(teamData.items, 6))

\* C5: when pre-validation fails, calculate ends in the failure
\* 'Pre-validation failed' and has called no strategy; in particular no
\* strategy is called for data that is no list or has not 12 entries.
C5_InvalidInputNoStrategy ==
    /\ (op = "calculate" /\ ~preValidateData(teamData).isValid)
         => /\ pc = "done"
            /\ outcome = "Pre-validation failed"
            /\ attempts = <<>>
            /\ returned.threw
    /\ (op = "calculate" /\ (~teamData.isArray \/ Len(teamData.items) # 12))
         => attempts = <<>>

\* calculate has refused a list of 11 teams
C5_Witness ==
    /\ op = "calculate"
    /\ pc = "done"
    /\ teamData.isArray
    /\ Len(teamData.items) = 11
    /\ outcome = "Pre-validation failed"

\* C6: calculate tries the strategies in the order standard, statistical,
\* weighted without skipping one: the statistical strategy is called as
\* soon as the standard result has failed validation, and the weighted one
\* only after the statistical result has failed it too.
C6_FallbackOrder ==
    op = "calculate"
    => /\ Len(attempts) <= 3
       /\ attempts = SubSeq(StandardOrder, 1, Len(attempts))
       /\ Len(attempts) >= 2 => (Len(verdicts) >= 1 /\ ~verdicts[1])
       /\ Len(attempts) = 3 => (Len(verdicts) >= 2 /\ ~verdicts[2])
       /\ (Len(verdicts) >= 1 /\ ~verdicts[1]) => Len(attempts) >= 2
       /\ (Len(verdicts) >= 2 /\ ~verdicts[2]) => Len(attempts) = 3

\* the weighted strategy has been called after two rejected results
C6_Witness ==
    /\ op = "calculate"
    /\ attempts = StandardOrder
    /\ verdicts = <<FALSE, FALSE>>

TwelveIdentical ==
    /\ teamData.isArray
    /\ Len(teamData.items) = 12
    /\ AllNumeric(teamData.items)
    /\ \A i \in 1..12 : teamData.items[i].score = teamData.items[1].score

\* C7 as stated: for 12 identical scores calculate ends by returning the
\* result of the statistical strategy.
C7_ReturnsStatistical ==
    (op = "calculate" /\ pc = "done" /\ TwelveIdentical)
    => /\ outcome = "returned"
       /\ returned.algorithm = "statistical_median"

\* C7 as amended: for 12 identical scores the standard result is rejected,
\* calculate falls back to the statistical and then to the weighted
\* strategy, both results are rejected as well, and the invocation ends in
\* the failure 'All calculation algorithms failed' without a result.
C7_IdenticalScoresFail ==
    (op = "calculate" /\ TwelveIdentical)
    => /\ Len(verdicts) >= 1 => Len(attempts) >= 2
       /\ \A i \in 1..Len(verdicts) : ~verdicts[i]
       /\ pc = "done"
            => /\ attempts = StandardOrder
               /\ verdicts = <<FALSE, FALSE, FALSE>>
               /\ outcome = "All calculation algorithms failed"
               /\ returned.threw

C7_Witness ==
    /\ op = "calculate"
    /\ pc = "done"
    /\ TwelveIdentical
    /\ attempts = StandardOrder
    /\ outcome = "All calculation algorithms failed"

\* C8: calculate returns a result only if validateResult accepts that
\* result, and when the results of all three strategies are rejected it
\* ends in the failure 'All calculation algorithms failed' and returns none.
C8_OnlyValidatedReturned ==
    op = "calculate"
    => /\ ~returned.threw => validateResult(returned).isValid
       /\ outcome = "returned" => ~returned.threw
       /\ (pc = "done" /\ verdicts = <<FALSE, FALSE, FALSE>>)
            => /\ outcome = "All calculation algorithms failed"
               /\ returned.threw

\* all three results of a valid ScoreSet within the plausible band have
\* been rejected and calculate has failed
C8_Witness ==
    /\ op = "calculate"
    /\ pc = "done"
    /\ ValidScoreSet(teamData)
    /\ verdicts = <<FALSE, FALSE, FALSE>>
    /\ outcome = "All calculation algorithms failed"
    /\ returned.threw

\* C10: whenever a strategy has been called (by calculate, by
\* executeRecalculation or in MedianCalculator.calculateMedian),
\* preValidateData has run and passed on that data before, and the data is
\* a list of 12 entries with numeric scores within [0, 300].
C10_ValidatedBeforeStrategy ==
    attempts # <<>>
    => /\ ValidScoreSet(teamData)
       /\ op \in {"calculate", "executeRecalculation"} => validated


(***************************************************************************)
(* Properties of the history                                               *)
(***************************************************************************)
\* how many of k records a history of capacity 100 keeps
Kept(k) == IF k < historyCapacity THEN k ELSE historyCapacity

\* C11: after any sequence of recordings the history holds at most 100
\* records, and exactly the most recent min(k, 100) of the k records that
\* were appended, in the order they were appended.
C11_HistoryFifo ==
    LET k == Len(recorded)
    IN  /\ Len(medianHistory) <= historyCapacity
        /\ medianHistory = SubSeq(recorded, k - Kept(k) + 1, k)

\* more than 100 records were appended: the first is gone, the history is
\* full and begins with a record that differs from the one evicted
C11_Witness ==
    /\ Len(recorded) > historyCapacity
    /\ Len(medianHistory) = historyCapacity
    /\ medianHistory[1] # recorded[1]
    /\ medianHistory[historyCapacity] = recorded[Len(recorded)]


(***************************************************************************)
(* Properties of the validators                                            *)
(***************************************************************************)
\* the rules a result violates when each is given the part of the result it
\* is written for, in the order setupValidationRules registers them
ViolatedRules(res) ==
    (IF medianRangeRule(ArgNumber(res.median)) THEN <<>> ELSE <<"median_range">>)
    \o (IF teamCountRule(ArgArray(res.teams)) THEN <<>> ELSE <<"team_count">>)
    \o (IF scoreConsistencyRule(ArgArray(res.teams))
        THEN <<>> ELSE <<"score_consistency">>)
    \o (IF calculationAccuracyRule(ArgObject(res))
        THEN <<>> ELSE <<"calculation_accuracy">>)

\* the results calculate hands to validateResult
JudgedResults ==
    IF op = "calculate" THEN {r \in {primaryResult, result} : ~r.threw} ELSE {}

\* C14: validateResult finds a result valid exactly when the four rules hold
\* for it (median within [0, 300], 12 teams, recomputed standard median
\* within 0.01 of the median, standard deviation strictly between 5 and 50),
\* and otherwise reports one error for each violated rule, all of them.
C14_ValidatorMatchesRules ==
    \A res \in JudgedResults :
        /\ validateResult(res).isValid = (ViolatedRules(res) = <<>>)
        /\ validateResult(res).errors = ViolatedRules(res)


\* the entries of a list that are no finite number within [0, 300]
BadScores(items) ==
    {i \in 1..Len(items) :
        \/ items[i].kind # "number"
        \/ items[i].score < 0
        \/ items[i].score > Points(MaxScore)}

\* the entries of the errors preValidateData reports
ReportedEntries(data) ==
    LET errors == preValidateData(data).errors
    IN  {errors[i][2] + 1 : i \in {j \in 1..Len(errors) :
            errors[j][1] \in {"Invalid score", "Score out of range"}}}

\* C15: a candidate that is no list, that has not 12 entries, or that has an
\* entry whose score is no finite number within [0, 300] (NaN and text
\* included) is found invalid by preValidateData and refused by
\* validateTeamData, and preValidateData reports every offending entry, not
\* only the first.
C15_InvalidScoreSetRejected ==
    ~ValidScoreSet(teamData)
    => /\ ~preValidateData(teamData).isValid
       /\ validateTeamData(teamData).threw
       /\ teamData.isArray => BadScores(teamData.items) \subseteq ReportedEntries(teamData)

Identifiers(items) == {items[i].team : i \in 1..Len(items)}

\* C16: data that passed preValidateData has 12 entries that all carry an
\* identifier, no two of them the same.
C16_DistinctIdentifiers ==
    validated
    => /\ \A i \in 1..Len(teamData.items) : teamData.items[i].team # 0
       /\ Cardinality(Identifiers(teamData.items)) = teamCount


(***************************************************************************)
(* Properties of anomaly detection                                         *)
(***************************************************************************)
\* the data runAnomalyCheck has detection run on
CheckedData ==
    [median |-> NaN, teams |-> teamData.items, scores |-> Scores(teamData.items)]

Reported(check) ==
    {check.detectorResults[i].detector : i \in 1..Len(check.detectorResults)}

FindingsOf(check) == {check.anomalies[i] : i \in 1..Len(check.anomalies)}

AnomalyCheckDone == op = "runAnomalyCheck" /\ pc = "done" /\ teamData.isArray

\* C17: when a detector throws during anomaly detection the run goes on: an
\* aggregated verdict is produced, every detector that did not throw has its
\* report and its findings in it, and a detector that threw has neither a
\* report nor a finding in it.
C17_DetectorFailureIsolated ==
    AnomalyCheckDone
    => LET runs == DetectorRuns(CheckedData, medianHistory)
       IN  /\ outcome \in {"checked", "scoring.anomaly.found"}
           /\ \A i \in 1..Len(runs) :
                 IF runs[i].threw
                 THEN /\ runs[i].detector \notin Reported(anomalyCheck)
                      /\ FindingType(runs[i].detector) \notin FindingsOf(anomalyCheck)
                 ELSE /\ \E j \in 1..Len(anomalyCheck.detectorResults) :
                            anomalyCheck.detectorResults[j] = runs[i]
                      /\ \A k \in 1..Len(runs[i].anomalies) :
                            runs[i].anomalies[k] \in FindingsOf(anomalyCheck)

\* the statistical detector threw, and the verdict carries the finding of
\* the pattern detector, which ran after it
C17_Witness ==
    /\ AnomalyCheckDone
    /\ DetectorRuns(CheckedData, medianHistory)[1].threw
    /\ "pattern" \in Reported(anomalyCheck)
    /\ anomalyCheck.hasAnomalies
    /\ "score_clustering" \in FindingsOf(anomalyCheck)
    /\ outcome = "scoring.anomaly.found"

\* |z| > 2.5 for entry i of a list of numeric scores: with n scores of sum S
\* and m = n * s - S, z^2 = n * m^2 / Sum (n * s - S)^2, so the test is
\* 4 * n * m^2 > 25 * Sum (n * s - S)^2
IsOutlier(items, i) ==
    LET nums == Scores(items)
        n == Len(nums)
        m == n * nums[i].v - SumInts(Values(nums))
    IN  /\ ~AnyNaN(nums)
        /\ WideLess(WideScale(SquaredDeviations(nums), 25),
                    WideScale(Normal(WideSquare(m)), 4 * n))

\* C18: when anomaly detection has run on scores of which one has |z| > 2.5
\* against their own mean and standard deviation, the verdict holds a
\* report of the statistical detector with a statistical_outlier finding,
\* and hasAnomalies is true.
C18_OutlierReported ==
    (AnomalyCheckDone /\ \E i \in 1..Len(teamData.items) : IsOutlier(teamData.items, i))
    => /\ "statistical" \in Reported(anomalyCheck)
       /\ "statistical_outlier" \in FindingsOf(anomalyCheck)
       /\ anomalyCheck.hasAnomalies


\* where the anomalies of report i begin in the concatenation
Offset(list, i) == SumInts([j \in 1..(i - 1) |-> Len(list[j].anomalies)])

WithConfidence(list, c) == [i \in 1..Len(list) |-> [list[i] EXCEPT !.confidence = c]]

\* C19: for any list of reports the aggregator returns all their anomalies,
\* report after report in the order given, hasAnomalies exactly when there
\* is at least one, and as severity the highest severity of a report (0 for
\* the empty list); the confidence of the reports changes none of these.
C19_AggregatorVerdict ==
    op = "aggregateAnomalyResults"
    => /\ Len(anomalyCheck.anomalies) = Offset(reports, Len(reports) + 1)
       /\ \A i \in 1..Len(reports) : \A k \in 1..Len(reports[i].anomalies) :
             anomalyCheck.anomalies[Offset(reports, i) + k] = reports[i].anomalies[k]
       /\ anomalyCheck.hasAnomalies
             = (\E i \in 1..Len(reports) : reports[i].anomalies # <<>>)
       /\ \A i \in 1..Len(reports) : anomalyCheck.severityNum >= reports[i].severityNum
       /\ \/ anomalyCheck.severityNum = 0
          \/ \E i \in 1..Len(reports) : anomalyCheck.severityNum = reports[i].severityNum
       /\ \A c \in {0, 100} :
             LET other == aggregateAnomalyResults(WithConfidence(reports, c))
             IN  /\ other.anomalies = anomalyCheck.anomalies
                 /\ other.hasAnomalies = anomalyCheck.hasAnomalies
                 /\ other.severityNum = anomalyCheck.severityNum

\* three reports were aggregated: the one without anomalies and the one of
\* the lower severity leave the verdict at the highest severity, which comes
\* from the detector of the lowest confidence
C19_Witness ==
    /\ op = "aggregateAnomalyResults"
    /\ Len(reports) = 3
    /\ reports[1].anomalies = <<>>
    /\ reports[2].severityNum = 1
    /\ reports[3].severityNum = 2
    /\ reports[3].detector = "projection"
    /\ anomalyCheck.severityNum = 2
    /\ Len(anomalyCheck.anomalies) = Len(reports[2].anomalies) + Len(reports[3].anomalies)


(***************************************************************************)
(* Properties of the strategies called directly                            *)
(***************************************************************************)
StrategyCalled == op \in {AlgorithmNames[i] : i \in 1..Len(AlgorithmNames)}

StablePlace(items, k) ==
    1 + Cardinality({j \in 1..Len(items) : items[j].score > items[k].score})
      + Cardinality({j \in 1..(k - 1) : items[j].score = items[k].score})

\* C21: in every result on 12 numeric scores the entries are in descending
\* order of score, entries with equal scores keep the order of the input,
\* and the entry at place i carries rank i.
C21_RankedEntries ==
    (teamData.isArray /\ Len(teamData.items) = 12 /\ AllNumeric(teamData.items))
    => \A r \in AllResults :
           /\ Len(r.teams) = 12
           /\ \A i \in 1..11 : r.teams[i].score >= r.teams[i + 1].score
           /\ \A k \in 1..12 :
                 LET entry == r.teams[StablePlace(teamData.items, k)]
                 IN  /\ entry.team = teamData.items[k].team
                     /\ entry.score = teamData.items[k].score
           /\ \A i \in 1..12 :
                 /\ "rank" \in DOMAIN r.teams[i]
                 /\ r.teams[i].rank = i

\* the same without the rank: what the results of both classes satisfy
C21_OrderedAndStable ==
    (teamData.isArray /\ Len(teamData.items) = 12 /\ AllNumeric(teamData.items))
    => \A r \in AllResults :
           /\ Len(r.teams) = 12
           /\ \A i \in 1..11 : r.teams[i].score >= r.teams[i + 1].score
           /\ \A k \in 1..12 :
                 LET entry == r.teams[StablePlace(teamData.items, k)]
                 IN  /\ entry.team = teamData.items[k].team
                     /\ entry.score = teamData.items[k].score


\* C22: on every valid ScoreSet of 12 entries the statistical and the
\* weighted strategy (no weights given) report the median the standard
\* strategy reports, validateResult gives their results the verdict it gave
\* the standard result, the four rules are violated by the same results,
\* and calculate returns no fallback result.
C22_FallbacksAgree ==
    (op = "calculate" /\ ValidScoreSet(teamData))
    => /\ (Len(attempts) >= 2 /\ ~result.threw)
            => /\ result.algorithm \in {"statistical_median", "weighted_median"}
               /\ result.median = primaryResult.median
               /\ validateResult(result).isValid
                      = validateResult(primaryResult).isValid
               /\ ViolatedRules(result) = ViolatedRules(primaryResult)
       /\ \A i \in 1..Len(verdicts) : verdicts[i] = verdicts[1]
       /\ outcome = "returned" => returned.algorithm = "rffl_standard"

\* all three strategies have run on a rearranged ScoreSet whose 6th and 7th
\* scores differ, and the weighted result carries the standard median
C22_Witness ==
    /\ op = "calculate"
    /\ pc = "done"
    /\ ValidScoreSet(teamData)
    /\ IsRearranged
    /\ KthHighest(teamData.items, 6) # KthHighest(teamData.items, 7)
    /\ attempts = StandardOrder
    /\ result.algorithm = "weighted_median"
    /\ result.median = primaryResult.median
    /\ Len(verdicts) = 3


HistoricalMedians == [i \in 1..Len(medianHistory) |-> medianHistory[i].median]

HistoricalReports ==
    {i \in 1..Len(anomalyCheck.detectorResults) :
        anomalyCheck.detectorResults[i].detector = "historical"}

HistoricalFinding ==
    \E i \in HistoricalReports :
        anomalyCheck.detectorResults[i].anomalies # <<>>

\* C23: when anomaly detection has run on a result, the historical detector
\* has reported nothing if the history holds fewer than 5 records, and with
\* 5 records or more it has reported a finding exactly when the median of
\* the result is more than 2.0 standard deviations from the mean of the
\* recorded medians, with severity 1 from 3 deviations on.
C23_HistoricalDetector ==
    op = "performAnomalyDetection"
    => /\ Len(medianHistory) < 5 => ~HistoricalFinding
       /\ Len(medianHistory) >= 5
            => /\ HistoricalFinding
                    <=> ZScoreAbove(result.median, HistoricalMedians, 2)
               /\ \A i \in HistoricalReports :
                     (/\ ZScoreAbove(result.median, HistoricalMedians, 2)
                      /\ ~ZScoreBelow(result.median, HistoricalMedians, 3))
                     => anomalyCheck.detectorResults[i].severityNum = FullSeverity

\* the part of it that holds: nothing is reported on fewer than 5 records
C23_NothingBelowFive ==
    (op = "performAnomalyDetection" /\ Len(medianHistory) < 5)
    => ~HistoricalFinding


\* the anomalies the projection detector reported for the team at place i
ProjectionFindings(i) ==
    {k \in 1..Len(reports[1].anomalies) : reports[1].anomalies[k].index = i - 1}

\* the team at place i has a projection that is a number other than 0
HasProjection(i) ==
    teamData.items[i].proj # NoProjection /\ teamData.items[i].proj # 0

\* |score - proj| / proj > 0.5 for a team with a positive projection
OverHalfOff(i) ==
    LET t == teamData.items[i]
    IN  2 * Abs(t.score - t.proj) > t.proj

\* min(|score - proj| / proj, 1) is the fraction f
IsCappedVariance(i, f) ==
    LET t == teamData.items[i]
    IN  IF Abs(t.score - t.proj) >= t.proj THEN f.num = f.den
        ELSE f.num * t.proj = Abs(t.score - t.proj) * f.den

\* C24: the projection detector reports nothing for a team whose projection
\* is 0 or missing; for every other team it reports one finding exactly
\* when |score - proj| / proj > 0.5, with severity min(that variance, 1).
C24_ProjectionDetector ==
    op = "detectProjectionAnomalies"
    => \A i \in 1..Len(teamData.items) :
           /\ ~HasProjection(i) => ProjectionFindings(i) = {}
           /\ HasProjection(i)
                => /\ Cardinality(ProjectionFindings(i))
                          = IF OverHalfOff(i) THEN 1 ELSE 0
                   /\ \A k \in ProjectionFindings(i) :
                          IsCappedVariance(i, reports[1].anomalies[k].severity)

\* the part of it that holds: the teams with a nonzero projection
C24_NonzeroProjections ==
    op = "detectProjectionAnomalies"
    => \A i \in 1..Len(teamData.items) :
           HasProjection(i)
           => /\ Cardinality(ProjectionFindings(i))
                     = IF OverHalfOff(i) THEN 1 ELSE 0
              /\ \A k \in ProjectionFindings(i) :
                     IsCappedVariance(i, reports[1].anomalies[k].severity)


\* the weights the weighted strategy works with: 1 each when none are given
GivenWeights ==
    IF suppliedWeights.isArray THEN suppliedWeights.items
    ELSE [i \in 1..Len(teamData.items) |-> 1]

\* the place an entry of the input takes in a stable ascending order
AscendingPlace(items, k) ==
    1 + Cardinality({j \in 1..Len(items) : items[j].score < items[k].score})
      + Cardinality({j \in 1..(k - 1) : items[j].score = items[k].score})

EntryAt(items, p) == CHOOSE k \in 1..Len(items) : AscendingPlace(items, k) = p

\* the weight of the first p entries of the ascending order
RECURSIVE WeightUpTo(_, _, _)
WeightUpTo(items, w, p) ==
    IF p = 0 THEN 0 ELSE WeightUpTo(items, w, p - 1) + w[EntryAt(items, p)]

\* the average of two scores to the nearest cent, halves up
RoundedAverage(a, b) ==
    LET avg == (a + b) \div 2
    IN  IF avg % 2 = 0 THEN avg ELSE avg + 1

\* what the claim describes: the score at the first place of the ascending
\* order where the cumulative weight reaches half of the total, averaged
\* with the next score when it is exactly half and a next entry exists
DescribedMedian(items, w) ==
    LET n == Len(items)
        p == CHOOSE q \in 1..n :
                 /\ 2 * WeightUpTo(items, w, q) >= SumInts(w)
                 /\ \A r \in 1..(q - 1) : 2 * WeightUpTo(items, w, r) < SumInts(w)
    IN  IF 2 * WeightUpTo(items, w, p) = SumInts(w) /\ p < n
        THEN RoundedAverage(items[EntryAt(items, p)].score,
                            items[EntryAt(items, p + 1)].score)
        ELSE items[EntryAt(items, p)].score

\* the median of the order statistics: the middle score, or the average of
\* the two middle scores
OrderStatisticMedian(items) ==
    LET n == Len(items)
    IN  IF n % 2 = 1 THEN KthHighest(items, (n + 1) \div 2)
        ELSE RoundedAverage(KthHighest(items, n \div 2),
                            KthHighest(items, (n \div 2) + 1))

EqualWeightsGiven == \A i, j \in 1..Len(GivenWeights) : GivenWeights[i] = GivenWeights[j]

C26_SensitivityBounded ==
    \A name \in DOMAIN sensitivity :
        sensitivity[name] >= 10 /\ sensitivity[name] <= 100

\* both limits have been met: the projection detector is at 0.1, the others
\* at 1.0, which the pattern detector (0.75 + 0.02 k) reaches only by the cap
C26_Witness ==
    /\ sensitivity["projection"] = 10
    /\ sensitivity["statistical"] = 100
    /\ sensitivity["historical"] = 100
    /\ sensitivity["pattern"] = 100


\* C27: whatever priorities the tuning has set, calculate calls the
\* standard strategy first, the statistical second and the weighted third.
C27_OrderIgnoresPriority ==
    op = "calculate"
    => \A i \in 1..Len(attempts) :
           /\ i <= Len(StandardOrder)
           /\ attempts[i] = StandardOrder[i]

\* calculate has called the three strategies in the standard order while
\* the priorities rank them weighted, statistical, standard
C27_Witness ==
    /\ op = "calculate"
    /\ attempts = StandardOrder
    /\ priority["weighted_median"] > priority["statistical_median"]
    /\ priority["statistical_median"] > priority["rffl_standard"]


NoStrategyTwice ==
    \A i, j \in 1..Len(attempts) : attempts[i] = attempts[j] => i = j

\* C28: every invocation of calculate ends, with a result or with a
\* failure, and until then has called at most 3 strategies and none of them
\* twice.
C28_Terminates ==
    /\ [](op = "calculate" => (Len(attempts) <= 3 /\ NoStrategyTwice))
    /\ (op = "calculate" /\ pc # "done")
           ~> (op = "calculate" /\ pc = "done" /\ outcome # "none")

\* an invocation has ended in failure after one call of each strategy
C28_Witness ==
    /\ op = "calculate"
    /\ pc = "done"
    /\ outcome = "All calculation algorithms failed"
    /\ Len(attempts) = 3
    /\ NoStrategyTwice
    /\ fbIndex = Len(FallbackAlgorithms)


\* two results name the same median and give every team, place by place,
\* the same outcome
SameMedianAndOutcomes(a, b) ==
    /\ a.median = b.median
    /\ Len(a.teams) = Len(b.teams)
    /\ \A i \in 1..Len(a.teams) :
          /\ a.teams[i].team = b.teams[i].team
          /\ a.teams[i].result = b.teams[i].result

\* C29: on every list of 12 numeric scores calculateRFFLMedian and
\* MedianCalculator.calculateMedian report the same median and give every
\* team the same WIN, LOSS or TIE.
C29_MatchesMedianCalculator ==
    (teamData.isArray /\ Len(teamData.items) = 12 /\ AllNumeric(teamData.items))
    => /\ (op = "calculate" /\ ~primaryResult.threw)
            => SameMedianAndOutcomes(primaryResult, calculateMedian(teamData))
       /\ (op = "calculateMedian" /\ ~result.threw)
            => SameMedianAndOutcomes(calculateRFFLMedian(teamData.items), result)

\* the part of it that holds: the two report the same median
C29_SameMedian ==
    (teamData.isArray /\ Len(teamData.items) = 12 /\ AllNumeric(teamData.items))
    => /\ (op = "calculate" /\ ~primaryResult.threw)
            => primaryResult.median = calculateMedian(teamData).median
       /\ (op = "calculateMedian" /\ ~result.threw)
            => calculateRFFLMedian(teamData.items).median = result.median


\* a step that ends an invocation of calculate with a result
ReturnsResult == op' = "calculate" /\ pc # "done" /\ pc' = "done" /\ outcome' = "returned"

\* the history holds one record more, that of the result returned, and has
\* let its oldest record go if it was full
OneRecordMore ==
    /\ Len(medianHistory') = Min(Len(medianHistory) + 1, historyCapacity)
    /\ medianHistory'[Len(medianHistory')] = HistoryRecord(returned')
    /\ \A i \in 1..(Len(medianHistory') - 1) :
          medianHistory'[i] = medianHistory[i + Len(medianHistory) + 1
                                              - Len(medianHistory')]

\* C30: no step of an invocation of calculate changes the history, except
\* the step that ends it with a result, which adds exactly one record; an
\* invocation that ends in failure has left the history as it found it.
C30_HistoryOnlyOnReturn ==
    [][op' = "calculate"
         => IF ReturnsResult THEN OneRecordMore
            ELSE medianHistory' = medianHistory]_vars

\* calculate has ended in failure after three rejected results without a
\* call of storeCalculationHistory, and the history is as it was
C30_Witness ==
    /\ op = "calculate"
    /\ pc = "done"
    /\ outcome = "All calculation algorithms failed"
    /\ verdicts = <<FALSE, FALSE, FALSE>>
    /\ ~stored
    /\ medianHistory = <<>>

====
